---------------------------- MODULE Spec2Model ----------------------------
(***************************************************************************)
(* A model of ontology_search.py: the word decomposer                      *)
(* (generate_word_combinations), the synonym normalizer                    *)
(* (add_lowercase_synonyms), the tiered matcher (search_ontology_term)     *)
(* and the query loop of main.                                             *)
(*                                                                         *)
(* A Python str is a sequence of one-character strings, so that lower(),   *)
(* strip(), re.split() and str.split() are computed character by           *)
(* character.  An ontology is the sequence of its classes in the order     *)
(* ontology.classes() and ontology.search() yield them; a class is a       *)
(* record of its multi-valued properties.                                  *)
(***************************************************************************)
EXTENDS Integers, Sequences, FiniteSets, TLC

VARIABLES pc, ontology, additional_conditions, line, lineno, query,
          term_results, stdout, text, combinations, runs

vars == <<pc, ontology, additional_conditions, line, lineno, query,
          term_results, stdout, text, combinations, runs>>

----------------------------------------------------------------------------
(* Bounds of the model.                                                     *)

\* longest text handed to generate_word_combinations on its own
MaxTextLen == 5
\* longest query handed to search_ontology_term
MaxQueryLen == 3
\* longest line of the query file
MaxLineLen == 3
\* most lines read from the query file
MaxLines == 2
\* most calls of add_lowercase_synonyms on one ontology
MaxRuns == 2

----------------------------------------------------------------------------
(* Strings.                                                                 *)

\* str.lower() on one character
LowerChar(c) == IF c = "A" THEN "a" ELSE c

\* str.lower()
Lower(s) == [i \in DOMAIN s |-> LowerChar(s[i])]

\* the characters str.strip() and str.split() treat as whitespace
Whitespace == {" ", "\t"}

IsSpace(c) == c \in Whitespace

\* the character class [ _\-.] of the decomposer's re.split
Separators == {" ", "_", "-", "."}

\* str.strip(): leading and trailing whitespace removed
Strip(s) ==
    LET inner == {i \in DOMAIN s : ~IsSpace(s[i])}
    IN  IF inner = {} THEN <<>>
        ELSE LET lo == CHOOSE i \in inner : \A j \in inner : i <= j
                 hi == CHOOSE i \in inner : \A j \in inner : j <= i
             IN  SubSeq(s, lo, hi)

\* the pieces of s between the characters of cuts; two adjacent cut
\* characters, or one at either end, give an empty piece (re.split)
RECURSIVE SplitAt(_, _, _, _)
SplitAt(s, i, cur, cuts) ==
    IF i > Len(s) THEN <<cur>>
    ELSE IF s[i] \in cuts THEN <<cur>> \o SplitAt(s, i + 1, <<>>, cuts)
    ELSE SplitAt(s, i + 1, Append(cur, s[i]), cuts)

\* re.split(r'[ _\-.]', s)
ReSplit(s) == SplitAt(s, 1, <<>>, Separators)

\* [w for w in words if w]
NonEmpty(words) == SelectSeq(words, LAMBDA w : w # <<>>)

\* str.split() without argument: split on runs of whitespace, no empty piece
SplitWhitespace(s) == NonEmpty(SplitAt(s, 1, <<>>, Whitespace))

\* " ".join(words)
RECURSIVE Join(_)
Join(words) ==
    IF words = <<>> THEN <<>>
    ELSE IF Len(words) = 1 THEN words[1]
    ELSE words[1] \o <<" ">> \o Join(Tail(words))

----------------------------------------------------------------------------
(* generate_word_combinations                                               *)

\* WindowsFrom with the range of its loop one short: range(len(words) - length)
RECURSIVE WindowsFromShort(_, _, _)
WindowsFromShort(words, length, i) ==
    IF i > Len(words) - length THEN <<>>
    ELSE <<Join(SubSeq(words, i, i + length - 1))>>
         \o WindowsFromShort(words, length, i + 1)

\* the inner loop: the windows of `length` words at offsets i, i+1, ...
RECURSIVE WindowsFrom(_, _, _)
WindowsFrom(words, length, i) ==
    IF i > Len(words) - length + 1 THEN <<>>
    ELSE <<Join(SubSeq(words, i, i + length - 1))>>
         \o WindowsFrom(words, length, i + 1)

\* the outer loop: length from len(words) down to 1
RECURSIVE CombinationsFrom(_, _)
CombinationsFrom(words, length) ==
    IF length < 1 THEN <<>>
    ELSE WindowsFrom(words, length, 1) \o CombinationsFrom(words, length - 1)

generate_word_combinations(t) ==
    LET words == NonEmpty(ReSplit(Strip(t)))
    IN  CombinationsFrom(words, Len(words))

----------------------------------------------------------------------------
(* add_lowercase_synonyms                                                   *)

\* the values of a sequence, as a set
Range(s) == {s[i] : i \in DOMAIN s}

\* the loop over cls.hasExactSynonym: the lower-cased synonyms that are not
\* members of existing_synonyms, in the order of the synonyms
LowercaseSynonyms(synonyms, existing_synonyms) ==
    SelectSeq([i \in DOMAIN synonyms |-> Lower(synonyms[i])],
              LAMBDA syn_lower : syn_lower \notin existing_synonyms)

\* the lower-cased first label, unless it is a member of existing_synonyms
LowercaseLabel(cls, existing_synonyms) ==
    LET label_lower == Lower(cls.label[1])
    IN  IF label_lower \notin existing_synonyms THEN <<label_lower>> ELSE <<>>

\* one iteration of the loop over ontology.classes()
AddToClass(cls) ==
    LET existing_synonyms == Range(cls.hasExactSynonym)
    IN  [cls EXCEPT !.hasBroadSynonym =
            @ \o LowercaseSynonyms(cls.hasExactSynonym, existing_synonyms)
              \o LowercaseLabel(cls, existing_synonyms)]

add_lowercase_synonyms(ont) == [i \in DOMAIN ont |-> AddToClass(ont[i])]

----------------------------------------------------------------------------
(* search_ontology_term                                                     *)

\* a result tuple (term, match_type, matched_part, matched_synonym); term is
\* the class's place in the ontology, matched_synonym is <<>> for None and
\* <<s>> for the str s
Result(term, match_type, matched_part, matched_synonym) ==
    [term |-> term, match_type |-> match_type,
     matched_part |-> matched_part, matched_synonym |-> matched_synonym]

\* SearchKwargs with the update by the conditions left out of the
\* broad-synonym lookup
SearchKwargsBroadUnfiltered(attr, value, conditions) ==
    IF attr = "hasBroadSynonym" THEN [k \in {attr} |-> value]
    ELSE [k \in {attr} \cup DOMAIN conditions |->
            IF k \in DOMAIN conditions THEN conditions[k] ELSE value]

\* search_kwargs = {attr: value}; search_kwargs.update(additional_conditions)
SearchKwargs(attr, value, conditions) ==
    [k \in {attr} \cup DOMAIN conditions |->
        IF k \in DOMAIN conditions THEN conditions[k] ELSE value]

\* ontology.search(**search_kwargs): the classes that carry, for every
\* keyword, a value equal to the one asked for, in the ontology's order
OntologySearch(ont, search_kwargs) ==
    SelectSeq([i \in DOMAIN ont |-> i],
              LAMBDA i : \A k \in DOMAIN search_kwargs :
                            search_kwargs[k] \in Range(ont[i][k]))

\* get_term_label
get_term_label(cls) == IF cls.label # <<>> THEN cls.label[1] ELSE cls.name

\* the first of the places a for loop stops at by break, 0 when it stops
\* at none
FirstIndex(places) ==
    IF places = {} THEN 0
    ELSE CHOOSE i \in places : \A j \in places : i <= j

\* [(term, "label", part, None) for term in label_results]
LabelResults(label_results, part) ==
    [j \in DOMAIN label_results |->
        Result(label_results[j], "label", part, <<>>)]

\* the loop over synonym_results: one result for each term that has a
\* synonym equal to part
RECURSIVE SynonymResults(_, _, _, _)
SynonymResults(ont, synonym_results, j, part) ==
    IF j > Len(synonym_results) THEN <<>>
    ELSE LET term == synonym_results[j]
             synonyms == ont[term].hasExactSynonym
             at == FirstIndex({i \in DOMAIN synonyms : synonyms[i] = part})
         IN  (IF at # 0
              THEN <<Result(term, "hasExactSynonym", part, <<synonyms[at]>>)>>
              ELSE <<>>)
             \o SynonymResults(ont, synonym_results, j + 1, part)

\* HasLabelResult with the check for an earlier label result left out
HasLabelResultNever(results, term, part, withPart) == FALSE

\* whether results holds a label result of term already; the exact tier
\* compares term and match_type, a decomposition group matched_part as well
HasLabelResult(results, term, part, withPart) ==
    \E r \in DOMAIN results :
        /\ results[r].term = term
        /\ results[r].match_type = "label"
        /\ (withPart => results[r].matched_part = part)

\* the loop over broad_synonym_results, appending to results
RECURSIVE BroadResults(_, _, _, _, _, _)
BroadResults(ont, broad_synonym_results, j, part, results, withPart) ==
    IF j > Len(broad_synonym_results) THEN results
    ELSE LET term == broad_synonym_results[j]
             term_label == get_term_label(ont[term])
             part_lower == Lower(part)
             synonyms == ont[term].hasExactSynonym
             at == FirstIndex({i \in DOMAIN synonyms :
                                 Lower(synonyms[i]) = part_lower})
             next ==
                IF Lower(term_label) = part_lower
                THEN IF ~HasLabelResult(results, term, part, withPart)
                     THEN Append(results, Result(term, "label", part, <<>>))
                     ELSE results
                ELSE IF at # 0 /\ Lower(synonyms[at]) # Lower(term_label)
                     THEN Append(results, Result(term, "hasExactSynonym",
                                                 part, <<synonyms[at]>>))
                     ELSE results
         IN  BroadResults(ont, broad_synonym_results, j + 1, part, next,
                          withPart)

\* the three lookups on one search key (the whole query, or one combination),
\* appended to results
Lookup(ont, part, conditions, results, withPart) ==
    LET label_results ==
            OntologySearch(ont, SearchKwargs("label", part, conditions))
        synonym_results ==
            OntologySearch(ont, SearchKwargs("hasExactSynonym", part,
                                             conditions))
        broad_synonym_results ==
            OntologySearch(ont, SearchKwargs("hasBroadSynonym", Lower(part),
                                             conditions))
        cased == results \o LabelResults(label_results, part)
                         \o SynonymResults(ont, synonym_results, 1, part)
    IN  BroadResults(ont, broad_synonym_results, 1, part, cased, withPart)

\* the exact tier: the lookups on the whole query
ExactResults(ont, q, conditions) == Lookup(ont, q, conditions, <<>>, FALSE)

\* word_count = len(combination.split())
WordCount(combination) == Len(SplitWhitespace(combination))

\* combinations_by_length[word_count]
CombinationsByLength(word_combinations, word_count) ==
    SelectSeq(word_combinations, LAMBDA c : WordCount(c) = word_count)

\* current_results after the loop over one group's combinations
RECURSIVE GroupResults(_, _, _, _, _)
GroupResults(ont, group, j, conditions, current_results) ==
    IF j > Len(group) THEN current_results
    ELSE GroupResults(ont, group, j + 1, conditions,
                      Lookup(ont, group[j], conditions, current_results, TRUE))

\* the loop over sorted(combinations_by_length.keys(), reverse=True), from
\* the largest key not above word_count
RECURSIVE SearchGroups(_, _, _, _)
SearchGroups(ont, word_combinations, conditions, word_count) ==
    IF word_count < 1 THEN <<>>
    ELSE LET group == CombinationsByLength(word_combinations, word_count)
             current_results == GroupResults(ont, group, 1, conditions, <<>>)
         IN  IF current_results # <<>> THEN current_results
             ELSE SearchGroups(ont, word_combinations, conditions,
                               word_count - 1)

\* the largest key of combinations_by_length, 0 when there is none
MaxWordCount(word_combinations) ==
    IF word_combinations = <<>> THEN 0
    ELSE LET counts == {WordCount(word_combinations[i]) :
                            i \in DOMAIN word_combinations}
         IN  CHOOSE k \in counts : \A m \in counts : m <= k

\* DecompositionResults without the grouping by word count: every
\* combination is looked up and all results are returned
DecompositionResultsUngrouped(ont, q, conditions) ==
    GroupResults(ont, generate_word_combinations(q), 1, conditions, <<>>)

\* the decomposition tier
DecompositionResults(ont, q, conditions) ==
    LET word_combinations == generate_word_combinations(q)
    IN  SearchGroups(ont, word_combinations, conditions,
                     MaxWordCount(word_combinations))

search_ontology_term(ont, q, conditions) ==
    LET all_results == ExactResults(ont, q, conditions)
    IN  IF all_results # <<>> THEN all_results
        ELSE DecompositionResults(ont, q, conditions)

----------------------------------------------------------------------------
(* The inputs: ontologies, conditions, queries.                             *)

\* all strings over chars of length at most n
StringsUpTo(chars, n) == UNION {[1..k -> chars] : k \in 0..n}

\* the labels the classes of the model carry: "a", "Aa", "aa" and "a a"
NamePool == {<<"a">>, <<"A", "a">>, <<"a", "a">>, <<"a", " ", "a">>}

\* the exact synonyms the classes of the model carry: "Aa" and "aa"
SynonymPool == {<<"A", "a">>, <<"a", "a">>}

\* the lists of exact synonyms of a class: at most two, all different
SynonymLists ==
    {s \in UNION {[1..k -> SynonymPool] : k \in 0..2} :
        \A i, j \in DOMAIN s : i # j => s[i] # s[j]}

\* a class as loaded: one label, no broad synonym yet (main declares the
\* property hasBroadSynonym only after loading)
Class(name, label, synonyms, xref) ==
    [name |-> name, label |-> <<label>>, hasExactSynonym |-> synonyms,
     hasBroadSynonym |-> <<>>, hasDbXref |-> <<xref>>]

\* the ontologies: two classes, T1 before T2; T1 carries the cross-reference
\* x and T2 the cross-reference y
Ontologies ==
    {<<Class(<<"T", "1">>, l1, s1, <<"x">>),
       Class(<<"T", "2">>, l2, s2, <<"y">>)>> :
        l1 \in NamePool, s1 \in SynonymLists,
        l2 \in NamePool, s2 \in SynonymLists}

\* additional_conditions as parse_additional_conditions returns it: empty, or
\* one attribute with the value required of it
Conditions ==
    {<<>>} \cup {[k \in {"hasDbXref"} |-> <<"x">>]}
           \cup {[k \in {"label"} |-> <<"a">>]}
           \cup {[k \in {"hasExactSynonym"} |-> <<"A", "a">>]}
           \cup {[k \in {"hasBroadSynonym"} |-> <<"a", "a">>]}

\* the characters of a query
QueryChars == {"a", "A", " ", "_"}

Queries == StringsUpTo(QueryChars, MaxQueryLen) \ {<<>>}

----------------------------------------------------------------------------
(* The matcher on its own: an ontology is normalized once, then queried.    *)

InitSearch ==
    /\ pc = "loaded"
    /\ additional_conditions \in Conditions
    /\ ontology \in Ontologies
    /\ line = <<>> /\ lineno = 0 /\ query = <<>> /\ term_results = <<>>
    /\ stdout = <<>> /\ text = <<>> /\ combinations = <<>> /\ runs = 0

Normalize ==
    /\ pc = "loaded"
    /\ ontology' = add_lowercase_synonyms(ontology)
    /\ runs' = runs + 1
    /\ pc' = "ready"
    /\ UNCHANGED <<additional_conditions, line, lineno, query, term_results,
                   stdout, text, combinations>>

Search ==
    /\ pc = "ready"
    /\ \E q \in Queries :
        /\ query' = q
        /\ term_results' =
              search_ontology_term(ontology, q, additional_conditions)
    /\ pc' = "searched"
    /\ UNCHANGED <<ontology, additional_conditions, line, lineno, stdout,
                   text, combinations, runs>>

NextSearch == Normalize \/ Search

SpecSearch == InitSearch /\ [][NextSearch]_vars

----------------------------------------------------------------------------
(* The decomposer on its own.                                               *)

\* the characters of a text: two letters, the four separators, a tab
TextChars == {"a", "b", " ", "_", "-", ".", "\t"}

InitDecompose ==
    /\ pc = "start"
    /\ text \in StringsUpTo(TextChars, MaxTextLen)
    /\ ontology = <<>> /\ additional_conditions = <<>>
    /\ line = <<>> /\ lineno = 0 /\ query = <<>> /\ term_results = <<>>
    /\ stdout = <<>> /\ combinations = <<>> /\ runs = 0

Decompose ==
    /\ pc = "start"
    /\ combinations' = generate_word_combinations(text)
    /\ pc' = "decomposed"
    /\ UNCHANGED <<ontology, additional_conditions, line, lineno, query,
                   term_results, stdout, text, runs>>

NextDecompose == Decompose

SpecDecompose == InitDecompose /\ [][NextDecompose]_vars

----------------------------------------------------------------------------
(* The normalizer on its own, called up to MaxRuns times on one ontology.   *)

InitNormalize ==
    /\ pc = "loaded"
    /\ ontology \in Ontologies
    /\ additional_conditions = <<>>
    /\ line = <<>> /\ lineno = 0 /\ query = <<>> /\ term_results = <<>>
    /\ stdout = <<>> /\ text = <<>> /\ combinations = <<>> /\ runs = 0

Renormalize ==
    /\ pc = "loaded"
    /\ runs < MaxRuns
    /\ ontology' = add_lowercase_synonyms(ontology)
    /\ runs' = runs + 1
    /\ UNCHANGED <<pc, additional_conditions, line, lineno, query,
                   term_results, stdout, text, combinations>>

NextNormalize == Renormalize

SpecNormalize == InitNormalize /\ [][NextNormalize]_vars

----------------------------------------------------------------------------
(* main: the ontology is normalized, the header printed, and the query file *)
(* read line by line.                                                       *)

\* "\t".join(columns), the f-string of a row
RECURSIVE TabJoin(_)
TabJoin(columns) ==
    IF columns = <<>> THEN <<>>
    ELSE IF Len(columns) = 1 THEN columns[1]
    ELSE columns[1] \o <<"\t">> \o TabJoin(Tail(columns))

\* the header row
Header ==
    TabJoin(<<<<"Query">>, <<"MatchedPart">>, <<"TermID">>, <<"MatchType">>,
              <<"TermLabel">>, <<"MatchedSynonym">>>>)

\* the row printed for one result
ResultRow(ont, q, result) ==
    LET term_id == ont[result.term].name
        term_label == get_term_label(ont[result.term])
        synonym_col == IF result.matched_synonym # <<>>
                          /\ result.matched_synonym[1] # <<>>
                       THEN result.matched_synonym[1] ELSE <<>>
    IN  TabJoin(<<q, result.matched_part, term_id, <<result.match_type>>,
                  term_label, synonym_col>>)

\* the rows printed for one query
QueryRows(ont, q, results) ==
    IF results # <<>>
    THEN [i \in DOMAIN results |-> ResultRow(ont, q, results[i])]
    ELSE <<TabJoin(<<q, <<>>, <<>>, <<>>, <<>>, <<>>>>)>>

\* the ontologies of main: T1 with at most one synonym, T2 with none
MainOntologies ==
    {<<Class(<<"T", "1">>, l1, s1, <<"x">>),
       Class(<<"T", "2">>, l2, <<>>, <<"y">>)>> :
        l1 \in {<<"a">>, <<"a", " ", "a">>},
        s1 \in {<<>>, <<<<"a">>>>, <<<<"A", "a">>>>},
        l2 \in {<<"a">>, <<"a", "a">>}}

MainConditions == {<<>>} \cup {[k \in {"hasDbXref"} |-> <<"x">>]}

\* the characters of a line of the query file (without its line end)
LineChars == {"a", " ", "\t"}

FileLines == StringsUpTo(LineChars, MaxLineLen)

Init ==
    /\ pc = "loaded"
    /\ additional_conditions \in MainConditions
    /\ ontology \in MainOntologies
    /\ line = <<>> /\ lineno = 0 /\ query = <<>> /\ term_results = <<>>
    /\ stdout = <<>> /\ text = <<>> /\ combinations = <<>> /\ runs = 0

PrintHeader ==
    /\ pc = "ready"
    /\ stdout' = Append(stdout, Header)
    /\ pc' = "reading"
    /\ UNCHANGED <<ontology, additional_conditions, line, lineno, query,
                   term_results, text, combinations, runs>>

\* one iteration of the loop over the lines of the query file
ProcessLine ==
    /\ pc = "reading"
    /\ lineno < MaxLines
    /\ \E l \in FileLines :
        /\ line' = l
        /\ query' = Strip(l)
        /\ IF Strip(l) = <<>>
           THEN UNCHANGED <<term_results, stdout>>
           ELSE LET results == search_ontology_term(ontology, Strip(l),
                                                    additional_conditions)
                IN  /\ term_results' = results
                    /\ stdout' = stdout \o QueryRows(ontology, Strip(l), results)
    /\ lineno' = lineno + 1
    /\ UNCHANGED <<pc, ontology, additional_conditions, text, combinations,
                   runs>>

\* the end of the query file
Finish ==
    /\ pc = "reading"
    /\ pc' = "done"
    /\ UNCHANGED <<ontology, additional_conditions, line, lineno, query,
                   term_results, stdout, text, combinations, runs>>

Next == Normalize \/ PrintHeader \/ ProcessLine \/ Finish

Spec == Init /\ [][Next]_vars

----------------------------------------------------------------------------
(* The decomposer's contract.                                               *)

\* the maximal separator-free stretches of s, as pairs <<first, last>>
TokenSpans(s) ==
    {sp \in (DOMAIN s) \X (DOMAIN s) :
        /\ sp[1] <= sp[2]
        /\ \A i \in sp[1]..sp[2] : s[i] \notin Separators
        /\ sp[1] = 1 \/ s[sp[1] - 1] \in Separators
        /\ sp[2] = Len(s) \/ s[sp[2] + 1] \in Separators}

\* the tokens of s, left to right
TokensOf(s) ==
    [j \in 1..Cardinality(TokenSpans(s)) |->
        LET sp == CHOOSE sp \in TokenSpans(s) :
                    Cardinality({o \in TokenSpans(s) : o[1] < sp[1]}) = j - 1
        IN  SubSeq(s, sp[1], sp[2])]

\* the words ws[i..j] with one space between neighbours
RECURSIVE SingleSpaced(_, _, _)
SingleSpaced(ws, i, j) ==
    IF i = j THEN ws[i] ELSE SingleSpaced(ws, i, j - 1) \o <<" ">> \o ws[j]

\* out lists the n*(n+1)/2 runs of the n tokens: the run of `length` tokens
\* at offset i comes after all longer runs and after the i - 1 runs of its
\* length that start further left
ListsAllRuns(tokens, out) ==
    LET n == Len(tokens)
    IN  /\ Len(out) = (n * (n + 1)) \div 2
        /\ \A length \in 1..n : \A i \in 1..(n - length + 1) :
              out[((n - length) * (n - length + 1)) \div 2 + i]
                 = SingleSpaced(tokens, i, i + length - 1)

\* C7, as stated: generate_word_combinations(text) lists, longest first and
\* left to right within a length, the n*(n+1)/2 single-spaced runs of the n
\* non-empty tokens that splitting text on the separators gives (none for
\* n = 0, the token itself for n = 1).
C7_DecomposerOnRawText ==
    pc = "decomposed" => ListsAllRuns(TokensOf(text), combinations)

\* C7, amended: the same, with the tokens those of the text stripped of its
\* leading and trailing whitespace.
C7_DecomposerOnStrippedText ==
    pc = "decomposed" => ListsAllRuns(TokensOf(Strip(text)), combinations)

\* three tokens, six sub-phrases
C7_Witness ==
    /\ pc = "decomposed"
    /\ Len(TokensOf(Strip(text))) = 3
    /\ Len(combinations) = 6
    /\ combinations[2] # combinations[3]

----------------------------------------------------------------------------
(* The matcher's contract.                                                  *)

\* cls carries, for every attribute of the conditions, the value required
Satisfies(cls, conditions) ==
    \A k \in DOMAIN conditions : conditions[k] \in Range(cls[k])

\* the sub-phrases of the query
SubPhrases == Range(generate_word_combinations(query))

\* the hits the three lookups give for the sub-phrase p
HitsOf(p) == Range(Lookup(ontology, p, additional_conditions, <<>>, TRUE))

\* the sub-phrases of the query with their hits, those with none left out
PhrasesWithHits ==
    {ph \in {<<p, HitsOf(p)>> : p \in SubPhrases} : ph[2] # {}}

\* results holds exactly the hits of the sub-phrases with the most words
\* among phrases, and none when phrases is empty
HoldsLongestOf(results, phrases) ==
    IF phrases = {} THEN results = <<>>
    ELSE LET counts == {WordCount(ph[1]) : ph \in phrases}
             k == CHOOSE k \in counts : \A m \in counts : m <= k
         IN  /\ \A i \in DOMAIN results :
                   WordCount(results[i].matched_part) = k
             /\ Range(results) =
                   UNION {ph[2] : ph \in {ph \in phrases : WordCount(ph[1]) = k}}

\* C1: when the lookups on the whole query give no hit, the result is
\* exactly the hits of the sub-phrases of the largest word count at which a
\* sub-phrase produces a hit: every returned hit's matched part has that
\* many words, none has fewer, and the result is empty when no sub-phrase
\* produces a hit.
C1_LongestMatchFirst ==
    (pc = "searched"
       /\ ExactResults(ontology, query, additional_conditions) = <<>>)
    => HoldsLongestOf(term_results, PhrasesWithHits)

\* a two-word sub-phrase is matched while a one-word sub-phrase matches
\* a class that gets no hit
C1_Witness ==
    /\ pc = "searched"
    /\ ExactResults(ontology, query, additional_conditions) = <<>>
    /\ term_results # <<>>
    /\ {WordCount(ph[1]) : ph \in PhrasesWithHits} = {1, 2}
    /\ \E ph \in PhrasesWithHits : \E h \in ph[2] :
          /\ WordCount(ph[1]) = 1
          /\ \A r \in DOMAIN term_results : term_results[r].term # h.term

\* the query is, case-sensitively, the label of class c, which satisfies
\* the conditions, and is not, case-insensitively, the label or an exact
\* synonym of another class
IsLabelOfOnly(c) ==
    /\ ontology[c].label[1] = query
    /\ Satisfies(ontology[c], additional_conditions)
    /\ \A d \in DOMAIN ontology \ {c} :
          /\ Lower(ontology[d].label[1]) # Lower(query)
          /\ \A s \in Range(ontology[d].hasExactSynonym) :
                Lower(s) # Lower(query)

NoCaseSensitiveMatch ==
    \A i \in DOMAIN ontology :
       /\ ontology[i].label[1] # query
       /\ query \notin Range(ontology[i].hasExactSynonym)

\* C3: a query that equals an exact synonym s of a class case-insensitively,
\* with no case-sensitive match anywhere, gets an exact-synonym hit for that
\* class with the query as matched part and s as matched synonym.
C3_CaseInsensitiveFallback ==
    pc = "searched" =>
       \A c \in DOMAIN ontology :
          \A s \in Range(ontology[c].hasExactSynonym) :
             (/\ Satisfies(ontology[c], additional_conditions)
              /\ Lower(s) = Lower(query)
              /\ NoCaseSensitiveMatch)
             => \E r \in DOMAIN term_results :
                   term_results[r] = Result(c, "hasExactSynonym", query, <<s>>)

\* C4: every hit is for a class that satisfies the conditions, so a class
\* that fails them gets no hit in any tier.
C4_ConditionsFilterEveryHit ==
    pc = "searched" =>
       \A r \in DOMAIN term_results :
          Satisfies(ontology[term_results[r].term], additional_conditions)

\* a class carries the query as its label or synonym, fails the conditions
\* and gets no hit, while another class is hit
C4_Witness ==
    /\ pc = "searched"
    /\ additional_conditions # <<>>
    /\ term_results # <<>>
    /\ \E i \in DOMAIN ontology :
          /\ ~Satisfies(ontology[i], additional_conditions)
          /\ \/ ontology[i].label[1] = query
             \/ query \in Range(ontology[i].hasExactSynonym)
          /\ \A r \in DOMAIN term_results : term_results[r].term # i

\* C9: the result never holds two hits with the same class, the same match
\* kind and the same matched part.
C9_NoDuplicateHits ==
    pc = "searched" =>
       \A i, j \in DOMAIN term_results :
          (/\ i # j
           /\ term_results[i].term = term_results[j].term
           /\ term_results[i].match_type = term_results[j].match_type)
          => term_results[i].matched_part # term_results[j].matched_part

\* C10: every hit is of kind label or hasExactSynonym; a label hit is for a
\* class whose label equals the matched part case-insensitively, and an
\* exact-synonym hit carries an exact synonym of the class that equals the
\* matched part case-insensitively.
C10_KindMirrorsField ==
    pc = "searched" =>
       \A r \in DOMAIN term_results :
          LET hit == term_results[r]
              cls == ontology[hit.term]
          IN  /\ hit.match_type \in {"label", "hasExactSynonym"}
              /\ hit.match_type = "label" =>
                    Lower(get_term_label(cls)) = Lower(hit.matched_part)
              /\ hit.match_type = "hasExactSynonym" =>
                    /\ hit.matched_synonym # <<>>
                    /\ hit.matched_synonym[1] \in Range(cls.hasExactSynonym)
                    /\ Lower(hit.matched_synonym[1]) = Lower(hit.matched_part)

----------------------------------------------------------------------------
(* The normalizer's contract.                                               *)

\* C5: a further run of add_lowercase_synonyms on an ontology that was
\* normalized before leaves the broad synonyms of every class as they were.
C5_SecondRunChangesNothing ==
    [][(runs >= 1 /\ runs' = runs + 1) =>
          \A i \in DOMAIN ontology :
             ontology'[i].hasBroadSynonym = ontology[i].hasBroadSynonym]_vars

\* C6: one run of add_lowercase_synonyms appends to no class a broad synonym
\* equal, case-insensitively, to one the class holds already: after the run
\* (the classes held none before it) no two entries of a class agree in
\* lower case.
C6_NoDuplicateBroadSynonym ==
    runs = 1 =>
       \A i \in DOMAIN ontology :
          \A a, b \in DOMAIN ontology[i].hasBroadSynonym :
             a # b => Lower(ontology[i].hasBroadSynonym[a])
                         # Lower(ontology[i].hasBroadSynonym[b])

----------------------------------------------------------------------------
(* The rows main prints.                                                    *)

\* the columns of a printed row
Columns(row) == SplitAt(row, 1, <<>>, {"\t"})

\* the columns a hit is reported with
HitColumns(q, hit) ==
    <<q, hit.matched_part, ontology[hit.term].name, <<hit.match_type>>,
      get_term_label(ontology[hit.term]),
      IF hit.matched_synonym = <<>> THEN <<>> ELSE hit.matched_synonym[1]>>

\* C8: each line read adds to the output, after what was printed before: no
\* row when the stripped line is empty; one row with the query in the first
\* of six columns and the other five empty when the matcher returns no hit;
\* else one six-column row per hit, in the matcher's order; and the loop
\* goes on to the next line.
C8_RowsPerLine ==
    [][lineno' = lineno + 1 =>
          LET q == Strip(line')
              hits == search_ontology_term(ontology, q, additional_conditions)
              new == SubSeq(stdout', Len(stdout) + 1, Len(stdout'))
          IN  /\ Len(stdout') >= Len(stdout)
              /\ SubSeq(stdout', 1, Len(stdout)) = stdout
              /\ pc' = "reading"
              /\ q = <<>> => new = <<>>
              /\ (q # <<>> /\ hits = <<>>) =>
                    /\ Len(new) = 1
                    /\ Columns(new[1]) = <<q, <<>>, <<>>, <<>>, <<>>, <<>>>>
              /\ (q # <<>> /\ hits # <<>>) =>
                    /\ Len(new) = Len(hits)
                    /\ \A i \in DOMAIN hits :
                          Columns(new[i]) = HitColumns(q, hits[i])]_vars

====
